---- MODULE Spec2Model ----
(***************************************************************************)
(* A model of the Mini-LISP interpreter of src/main.py: the tokenizer's    *)
(* scanning loop, the recursive-descent parser, the environment / closure  *)
(* runtime, the evaluator with its type checks, and the driver main().     *)
(*                                                                         *)
(* Text is a sequence of one-character strings; a token is such a          *)
(* sequence too (a slice of the text).  Python's 0-based indices are kept: *)
(* At(code, i) is code[i].                                                 *)
(***************************************************************************)
EXTENDS Integers, Sequences, FiniteSets, TLC

VARIABLES code, i, tokens, pc, ast, k, envs, out, log, status, exc

vars == <<code, i, tokens, pc, ast, k, envs, out, log, status, exc>>

(***************************************************************************)
(* Character classes (str.isdigit, str.isalpha, str.isalnum, and the \w of *)
(* the re module).  "sup2" stands for the one character U+00B2, SUPERSCRIPT*)
(* TWO: str.isdigit() is true of it and int() rejects it.                  *)
(***************************************************************************)
Whitespace == {" ", "\t", "\n", "\r"}

DecimalDigits == {"0", "1", "2", "3", "4", "5", "6", "7", "8", "9"}

Lower == {"a", "b", "c", "d", "e", "f", "g", "h", "i", "j", "k", "l", "m",
          "n", "o", "p", "q", "r", "s", "t", "u", "v", "w", "x", "y", "z"}

Upper == {"A", "B", "C", "D", "E", "F", "G", "H", "I", "J", "K", "L", "M",
          "N", "O", "P", "Q", "R", "S", "T", "U", "V", "W", "X", "Y", "Z"}

OperatorChars == {"+", "*", "/", "<", ">", "="}

isdigit(c) == c \in DecimalDigits \cup {"sup2"}

isalpha(c) == c \in Lower \cup Upper

isalnum(c) == isalpha(c) \/ isdigit(c)

At(s, n) == s[n + 1]

\* s[a:b] for 0 <= a, b <= len(s)
Slice(s, a, b) == SubSeq(s, a + 1, b)

(***************************************************************************)
(* Tokenizer                                                               *)
(***************************************************************************)

\* while j < len(code) and code[j].isdigit(): j += 1
RECURSIVE ScanDigits(_, _)
ScanDigits(text, j) ==
    IF j < Len(text) /\ isdigit(At(text, j)) THEN ScanDigits(text, j + 1) ELSE j

\* while i < len(code) and code[i] != '\n': i += 1
RECURSIVE ScanComment(_, _)
ScanComment(text, j) ==
    IF j < Len(text) /\ At(text, j) # "\n" THEN ScanComment(text, j + 1) ELSE j

\* while j < len(code) and (code[j].isalnum() or code[j] == '-'): j += 1
RECURSIVE ScanId(_, _)
ScanId(text, j) ==
    IF j < Len(text) /\ (isalnum(At(text, j)) \/ At(text, j) = "-")
    THEN ScanId(text, j + 1) ELSE j

\* One iteration of the scanning loop of tokenize, entered with i < len(code):
\* the position and the token list it leaves.
tokenize_iter(text, n, toks) ==
    LET c == At(text, n) IN
    IF c \in Whitespace THEN [i |-> n + 1, tokens |-> toks]
    ELSE IF c = ";" THEN [i |-> ScanComment(text, n), tokens |-> toks]
    ELSE IF c \in {"(", ")"} THEN [i |-> n + 1, tokens |-> Append(toks, <<c>>)]
    ELSE IF n + 1 < Len(text) /\ Slice(text, n, n + 2) \in {<<"#", "t">>, <<"#", "f">>}
         THEN [i |-> n + 2, tokens |-> Append(toks, Slice(text, n, n + 2))]
    ELSE IF c = "-" THEN
         IF n + 1 < Len(text) /\ isdigit(At(text, n + 1))
         THEN LET j == ScanDigits(text, n + 1)
              IN  [i |-> j, tokens |-> Append(toks, Slice(text, n, j))]
         ELSE [i |-> n + 1, tokens |-> Append(toks, <<"-">>)]
    ELSE IF isdigit(c) THEN
         LET j == ScanDigits(text, n)
         IN  [i |-> j, tokens |-> Append(toks, Slice(text, n, j))]
    ELSE IF isalpha(c) \/ c \in OperatorChars THEN
         IF c \in OperatorChars
            /\ (n + 1 >= Len(text) \/ At(text, n + 1) \in Whitespace \cup {"(", ")"})
         THEN [i |-> n + 1, tokens |-> Append(toks, <<c>>)]
         ELSE LET j == ScanId(text, n)
              IN  [i |-> j, tokens |-> Append(toks, Slice(text, n, j))]
    ELSE [i |-> n + 1, tokens |-> toks]

(***************************************************************************)
(* Values.  Python's bool is a subclass of int: isinstance(True, int)      *)
(* holds, and True counts as 1 in arithmetic.  A closure holds its         *)
(* parameter list, its body node and the index of the captured environment.*)
(***************************************************************************)
IntV(n) == [kind |-> "int", v |-> n]

BoolV(b) == [kind |-> "bool", v |-> b]

\* Function.__init__
Function(params, body, closure_env) ==
    [kind |-> "Function", params |-> params, body |-> body, closure_env |-> closure_env]

(***************************************************************************)
(* Parser.  A parse result is [res |-> "ok", node, pos], or a raised       *)
(* exception [res |-> "SyntaxError"] / [res |-> "ValueError"].  None, what *)
(* peek returns past the last token, is a value no token equals.           *)
(***************************************************************************)
None == <<"None">>

T_lparen == <<"(">>
T_rparen == <<")">>
T_true == <<"#", "t">>
T_false == <<"#", "f">>
T_print_num == <<"p", "r", "i", "n", "t", "-", "n", "u", "m">>
T_print_bool == <<"p", "r", "i", "n", "t", "-", "b", "o", "o", "l">>
T_define == <<"d", "e", "f", "i", "n", "e">>
T_fun == <<"f", "u", "n">>
T_if == <<"i", "f">>
T_plus == <<"+">>
T_times == <<"*">>
T_minus == <<"-">>
T_div == <<"/">>
T_mod == <<"m", "o", "d">>
T_eq == <<"=">>
T_gt == <<">">>
T_lt == <<"<">>
T_and == <<"a", "n", "d">>
T_or == <<"o", "r">>
T_not == <<"n", "o", "t">>

\* The tag of the node a keyword token produces (the token's own spelling).
OpOf(token) ==
    CASE token = T_print_num -> "print-num"
      [] token = T_print_bool -> "print-bool"
      [] token = T_plus -> "+"
      [] token = T_times -> "*"
      [] token = T_minus -> "-"
      [] token = T_div -> "/"
      [] token = T_mod -> "mod"
      [] token = T_eq -> "="
      [] token = T_gt -> ">"
      [] token = T_lt -> "<"
      [] token = T_and -> "and"
      [] token = T_or -> "or"

SyntaxError == [res |-> "SyntaxError"]

ValueError == [res |-> "ValueError"]

Ok(node, pos) == [res |-> "ok", node |-> node, pos |-> pos]

\* Parser.peek
peek(toks, pos) == IF pos < Len(toks) THEN At(toks, pos) ELSE None

\* re.match(r'^[a-z][\w-]*$', token): $ also matches before a final newline
IsVariable(token) ==
    LET body == IF Len(token) > 1 /\ token[Len(token)] = "\n"
                THEN SubSeq(token, 1, Len(token) - 1) ELSE token
    IN  /\ token # None
        /\ Len(body) >= 1
        /\ body[1] \in Lower
        /\ \A n \in 2..Len(body) : isalnum(body[n]) \/ body[n] \in {"_", "-"}

\* token.lstrip('-')
RECURSIVE lstrip_minus(_)
lstrip_minus(token) ==
    IF Len(token) > 0 /\ token[1] = "-" THEN lstrip_minus(Tail(token)) ELSE token

\* str.isdigit: non-empty, every character a digit
str_isdigit(s) == Len(s) > 0 /\ \A n \in 1..Len(s) : isdigit(s[n])

DigitValue(c) ==
    CASE c = "0" -> 0 [] c = "1" -> 1 [] c = "2" -> 2 [] c = "3" -> 3 [] c = "4" -> 4
      [] c = "5" -> 5 [] c = "6" -> 6 [] c = "7" -> 7 [] c = "8" -> 8 [] c = "9" -> 9

RECURSIVE DecimalValue(_)
DecimalValue(s) ==
    IF s = <<>> THEN 0
    ELSE 10 * DecimalValue(SubSeq(s, 1, Len(s) - 1)) + DigitValue(s[Len(s)])

\* int(token) accepts an optional sign and a non-empty run of decimal digits
int_accepts(token) ==
    LET digits == IF Len(token) > 0 /\ token[1] = "-" THEN Tail(token) ELSE token
    IN  Len(digits) > 0 /\ \A n \in 1..Len(digits) : digits[n] \in DecimalDigits

int_of(token) ==
    IF token[1] = "-" THEN 0 - DecimalValue(Tail(token)) ELSE DecimalValue(token)

RECURSIVE parse_exp(_, _), parse_sexp(_, _), parse_exps(_, _, _),
          parse_params(_, _, _), parse_body_defs(_, _, _), parse_stmts(_, _, _)

\* while self.peek() != ')': exps.append(self.parse_exp())
parse_exps(toks, pos, exps) ==
    IF peek(toks, pos) = T_rparen THEN [res |-> "ok", exps |-> exps, pos |-> pos]
    ELSE LET r == parse_exp(toks, pos)
         IN  IF r.res # "ok" THEN r
             ELSE parse_exps(toks, r.pos, Append(exps, r.node))

\* the parameter loop of the fun branch
parse_params(toks, pos, params) ==
    IF peek(toks, pos) = T_rparen THEN [res |-> "ok", params |-> params, pos |-> pos]
    ELSE LET param == peek(toks, pos)
         IN  IF param = None \/ param = <<>> \/ ~IsVariable(param) THEN SyntaxError
             ELSE parse_params(toks, pos + 1, Append(params, param))

\* the local-define loop of the fun branch: a '(' followed by define is a local define
parse_body_defs(toks, pos, body_defs) ==
    IF peek(toks, pos) = T_lparen /\ peek(toks, pos + 1) = T_define
    THEN LET r == parse_exp(toks, pos)
         IN  IF r.res # "ok" THEN r
             ELSE parse_body_defs(toks, r.pos, Append(body_defs, r.node))
    ELSE [res |-> "ok", body_defs |-> body_defs, pos |-> pos]

\* Parser.parse_exp
parse_exp(toks, pos) ==
    LET token == peek(toks, pos) IN
    IF token = None THEN SyntaxError
    ELSE IF token \in {T_true, T_false}
         THEN Ok([op |-> "lit", val |-> BoolV(token = T_true)], pos + 1)
    ELSE IF str_isdigit(lstrip_minus(token))
         THEN IF int_accepts(token)
              THEN Ok([op |-> "lit", val |-> IntV(int_of(token))], pos + 1)
              ELSE ValueError
    ELSE IF token = T_lparen THEN parse_sexp(toks, pos + 1)
    ELSE IF IsVariable(token) THEN Ok([op |-> "var", name |-> token], pos + 1)
    ELSE SyntaxError

\* Parser.parse_sexp, entered after the left parenthesis; expect(')') is the
\* test that the next token is ')' and one more token consumed
parse_sexp(toks, pos) ==
    LET op == peek(toks, pos) IN
    IF op = None \/ op = T_rparen THEN SyntaxError
    ELSE IF op \in {T_print_num, T_print_bool} THEN
         LET r == parse_exp(toks, pos + 1) IN
         IF r.res # "ok" THEN r
         ELSE IF peek(toks, r.pos) # T_rparen THEN SyntaxError
         ELSE Ok([op |-> OpOf(op), exp |-> r.node], r.pos + 1)
    ELSE IF op = T_define THEN
         LET var == peek(toks, pos + 1) IN
         IF var = None \/ var = <<>> \/ ~IsVariable(var) THEN SyntaxError
         ELSE LET r == parse_exp(toks, pos + 2) IN
              IF r.res # "ok" THEN r
              ELSE IF peek(toks, r.pos) # T_rparen THEN SyntaxError
              ELSE Ok([op |-> "define", name |-> var, exp |-> r.node], r.pos + 1)
    ELSE IF op = T_fun THEN
         IF peek(toks, pos + 1) # T_lparen THEN SyntaxError
         ELSE LET p == parse_params(toks, pos + 2, <<>>) IN
              IF p.res # "ok" THEN p
              ELSE LET d == parse_body_defs(toks, p.pos + 1, <<>>) IN
                   IF d.res # "ok" THEN d
                   ELSE LET b == parse_exp(toks, d.pos) IN
                        IF b.res # "ok" THEN b
                        ELSE IF peek(toks, b.pos) # T_rparen THEN SyntaxError
                        ELSE IF d.body_defs # <<>>
                             THEN Ok([op |-> "fun", params |-> p.params,
                                      body |-> [op |-> "fun-body", defs |-> d.body_defs,
                                                body |-> b.node]], b.pos + 1)
                             ELSE Ok([op |-> "fun", params |-> p.params, body |-> b.node],
                                     b.pos + 1)
    ELSE IF op = T_if THEN
         LET test == parse_exp(toks, pos + 1) IN
         IF test.res # "ok" THEN test
         ELSE LET then_exp == parse_exp(toks, test.pos) IN
              IF then_exp.res # "ok" THEN then_exp
              ELSE LET else_exp == parse_exp(toks, then_exp.pos) IN
                   IF else_exp.res # "ok" THEN else_exp
                   ELSE IF peek(toks, else_exp.pos) # T_rparen THEN SyntaxError
                   ELSE Ok([op |-> "if", test |-> test.node, then_exp |-> then_exp.node,
                            else_exp |-> else_exp.node], else_exp.pos + 1)
    ELSE IF op \in {T_plus, T_times, T_eq, T_and, T_or} THEN
         LET r == parse_exps(toks, pos + 1, <<>>) IN
         IF r.res # "ok" THEN r
         ELSE IF Len(r.exps) < 2 THEN SyntaxError
         ELSE Ok([op |-> OpOf(op), exps |-> r.exps], r.pos + 1)
    ELSE IF op \in {T_minus, T_div, T_mod, T_gt, T_lt} THEN
         LET exp1 == parse_exp(toks, pos + 1) IN
         IF exp1.res # "ok" THEN exp1
         ELSE LET exp2 == parse_exp(toks, exp1.pos) IN
              IF exp2.res # "ok" THEN exp2
              ELSE IF peek(toks, exp2.pos) # T_rparen THEN SyntaxError
              ELSE Ok([op |-> OpOf(op), exps |-> <<exp1.node, exp2.node>>], exp2.pos + 1)
    ELSE IF op = T_not THEN
         LET r == parse_exp(toks, pos + 1) IN
         IF r.res # "ok" THEN r
         ELSE IF peek(toks, r.pos) # T_rparen THEN SyntaxError
         ELSE Ok([op |-> "not", exp |-> r.node], r.pos + 1)
    ELSE LET func == parse_exp(toks, pos) IN
         IF func.res # "ok" THEN func
         ELSE LET a == parse_exps(toks, func.pos, <<>>) IN
              IF a.res # "ok" THEN a
              ELSE Ok([op |-> "call", func |-> func.node, args |-> a.exps], a.pos + 1)

\* the loop of Parser.parse_program
parse_stmts(toks, pos, stmts) ==
    IF peek(toks, pos) = None THEN [res |-> "ok", stmts |-> stmts]
    ELSE LET r == parse_exp(toks, pos)
         IN  IF r.res # "ok" THEN r
             ELSE parse_stmts(toks, r.pos, Append(stmts, r.node))

\* Parser(tokens).parse_program()
parse_program(toks) == parse_stmts(toks, 0, <<>>)

(***************************************************************************)
(* Bounds of the model.                                                    *)
(***************************************************************************)
\* the longest text of ShortTexts
MaxTextLen == 3

\* the longest program of StatementSequences
MaxStmts == 2

\* tokens beyond one per character that a run of tokenize may append before
\* the model stops following it (a run that advances appends at most one token
\* per character)
MaxStall == 2

\* nested evaluate calls before the host raises RecursionError
MaxDepth == 20

(***************************************************************************)
(* Runtime.  The heap envs is the sequence of the Environment objects      *)
(* created so far, an object being named by its index; parent 0 is None.   *)
(* The evaluator's state st is [envs, out, log, status]: the heap, the     *)
(* lines written to standard output, the history of the run, and "ok" or   *)
(* the name of the exception being raised.  log is a history variable: it  *)
(* records what the code did and decides nothing.                          *)
(***************************************************************************)
NoValue == [kind |-> "none"]

R(val, st) == [val |-> val, st |-> st]

Emit(st, event) == [st EXCEPT !.log = Append(@, event)]

\* raise exc(msg)
Raise(st, exception, msg) ==
    [st EXCEPT !.status = exception,
               !.log = Append(@, [ev |-> "raise", exc |-> exception, msg |-> msg])]

\* Environment.__init__: the heap with one more object, the last
Environment(heap, parent) == Append(heap, [vars |-> <<>>, parent |-> parent])

\* Environment.define without the test for a name already present
Environment_define_overwrite(st, e, name, value) ==
    Emit([st EXCEPT !.envs[e].vars =
                 [n \in (DOMAIN st.envs[e].vars) \cup {name} |->
                      IF n = name THEN value ELSE st.envs[e].vars[n]]],
         [ev |-> "define", env |-> e, name |-> name, val |-> value])

\* Environment.define
Environment_define(st, e, name, value) ==
    IF name \in DOMAIN st.envs[e].vars
    THEN Raise(Emit(st, [ev |-> "redefine", env |-> e, name |-> name]),
               "RuntimeError", "Redefining variable")
    ELSE Emit([st EXCEPT !.envs[e].vars =
                      [n \in (DOMAIN st.envs[e].vars) \cup {name} |->
                           IF n = name THEN value ELSE st.envs[e].vars[n]]],
              [ev |-> "define", env |-> e, name |-> name, val |-> value])

\* Environment.lookup: the object of the chain that binds the name, 0 if none
RECURSIVE Environment_lookup(_, _, _)
Environment_lookup(heap, e, name) ==
    IF name \in DOMAIN heap[e].vars THEN e
    ELSE IF heap[e].parent # 0 THEN Environment_lookup(heap, heap[e].parent, name)
    ELSE 0

TypeErrorLine == <<"T", "y", "p", "e", " ", "e", "r", "r", "o", "r", "!">>

SyntaxErrorLine == <<"s", "y", "n", "t", "a", "x", " ", "e", "r", "r", "o", "r">>

\* type_error without the sys.exit(0)
type_error_no_exit(st) ==
    Emit([st EXCEPT !.out = Append(@, TypeErrorLine)], [ev |-> "type_error"])

\* type_error: print("Type error!"); sys.exit(0)
type_error(st) ==
    Emit([st EXCEPT !.out = Append(@, TypeErrorLine), !.status = "SystemExit"],
         [ev |-> "type_error"])

TYPE_CHECKING == TRUE

isinstance_bool(val) == val.kind = "bool"

isinstance_int(val) == val.kind \in {"int", "bool"}

\* check_number without the test for bool that comes first
check_number_int_only(val, st) ==
    IF TYPE_CHECKING
    THEN IF ~isinstance_int(val) THEN type_error(st) ELSE st
    ELSE st

\* check_number
check_number(val, st) ==
    IF TYPE_CHECKING
    THEN IF isinstance_bool(val) THEN type_error(st)
         ELSE IF ~isinstance_int(val) THEN type_error(st)
         ELSE st
    ELSE st

\* check_boolean
check_boolean(val, st) ==
    IF TYPE_CHECKING
    THEN IF ~isinstance_bool(val) THEN type_error(st) ELSE st
    ELSE st

\* the number a value counts as in arithmetic (True is 1, False is 0); a
\* Function never reaches arithmetic, check_number having exited
AsNumber(val) ==
    CASE val.kind = "bool" -> (IF val.v THEN 1 ELSE 0)
      [] val.kind = "int" -> val.v
      [] OTHER -> 0

\* the truth value of `if val`
Truthy(val) ==
    CASE val.kind = "bool" -> val.v
      [] val.kind = "int" -> val.v # 0
      [] OTHER -> TRUE

\* a // b and a % b of Python (floor division), b # 0
FloorDiv(a, b) == IF b > 0 THEN a \div b ELSE (0 - a) \div (0 - b)

FloorMod(a, b) == a - b * FloorDiv(a, b)

DigitChar(d) ==
    CASE d = 0 -> "0" [] d = 1 -> "1" [] d = 2 -> "2" [] d = 3 -> "3" [] d = 4 -> "4"
      [] d = 5 -> "5" [] d = 6 -> "6" [] d = 7 -> "7" [] d = 8 -> "8" [] d = 9 -> "9"

RECURSIVE DecimalText(_)
DecimalText(n) ==
    IF n < 10 THEN <<DigitChar(n)>>
    ELSE Append(DecimalText(n \div 10), DigitChar(n % 10))

\* str(value) of print(value)
str(val) ==
    CASE val.kind = "int" ->
             IF val.v < 0 THEN <<"-">> \o DecimalText(0 - val.v) ELSE DecimalText(val.v)
      [] val.kind = "bool" ->
             IF val.v THEN <<"T", "r", "u", "e">> ELSE <<"F", "a", "l", "s", "e">>
      [] OTHER -> <<"<", "o", "b", "j", "e", "c", "t", ">">>

\* print(line)
print(st, line) ==
    Emit([st EXCEPT !.out = Append(@, line)], [ev |-> "print", line |-> line])

(***************************************************************************)
(* Evaluator.  evaluate and the operators it is made of thread the state   *)
(* st and return R(value, st'); once st'.status is not "ok" an exception   *)
(* is propagating and every caller returns at once.  depth counts the      *)
(* nested evaluate calls.                                                  *)
(***************************************************************************)
RECURSIVE evaluate(_, _, _, _), Function_call(_, _, _, _),
          Function_call_shared_env(_, _, _, _), Function_call_caller_env(_, _, _, _),
          bind_params(_, _, _, _, _),
          eval_list(_, _, _, _, _, _), eval_fold(_, _, _, _, _, _, _),
          eval_fun_body(_, _, _, _, _), eval_logic(_, _, _, _, _), eval_logic_eager(_, _, _, _, _),
          eval_if(_, _, _, _), eval_if_eager(_, _, _, _)

\* for param, arg in zip(self.params, args): local_env.define(param, arg)
bind_params(params, args, idx, local_env, st) ==
    IF idx > Len(params) THEN st
    ELSE LET st1 == Environment_define(st, local_env, params[idx], args[idx])
         IN  IF st1.status # "ok" THEN st1
             ELSE bind_params(params, args, idx + 1, local_env, st1)

\* binds the parameters in the captured environment itself
Function_call_shared_env(func, args, st, depth) ==
    IF Len(args) # Len(func.params) THEN R(NoValue, Raise(st, "RuntimeError", "Arity mismatch"))
    ELSE LET local_env == func.closure_env
             st1 == Emit(st, [ev |-> "call", local_env |-> local_env,
                              closure_env |-> func.closure_env, depth |-> depth])
             st2 == bind_params(func.params, args, 1, local_env, st1)
         IN  IF st2.status # "ok" THEN R(NoValue, st2)
             ELSE LET r == evaluate(func.body, local_env, st2, depth + 1)
                  IN  IF r.st.status # "ok" THEN r
                      ELSE R(r.val, Emit(r.st, [ev |-> "return", local_env |-> local_env,
                                                depth |-> depth]))

\* parents the local environment to the most recently created one (the caller's
\* side of the heap) instead of the captured one
Function_call_caller_env(func, args, st, depth) ==
    IF Len(args) # Len(func.params) THEN R(NoValue, Raise(st, "RuntimeError", "Arity mismatch"))
    ELSE LET heap == Environment(st.envs, Len(st.envs))
             local_env == Len(heap)
             st1 == Emit([st EXCEPT !.envs = heap],
                         [ev |-> "call", local_env |-> local_env,
                          closure_env |-> func.closure_env, depth |-> depth])
             st2 == bind_params(func.params, args, 1, local_env, st1)
         IN  IF st2.status # "ok" THEN R(NoValue, st2)
             ELSE LET r == evaluate(func.body, local_env, st2, depth + 1)
                  IN  IF r.st.status # "ok" THEN r
                      ELSE R(r.val, Emit(r.st, [ev |-> "return", local_env |-> local_env,
                                                depth |-> depth]))

\* Function.call
Function_call(func, args, st, depth) ==
    IF Len(args) # Len(func.params) THEN R(NoValue, Raise(st, "RuntimeError", "Arity mismatch"))
    ELSE LET heap == Environment(st.envs, func.closure_env)
             local_env == Len(heap)
             st1 == Emit([st EXCEPT !.envs = heap],
                         [ev |-> "call", local_env |-> local_env,
                          closure_env |-> func.closure_env, depth |-> depth])
             st2 == bind_params(func.params, args, 1, local_env, st1)
         IN  IF st2.status # "ok" THEN R(NoValue, st2)
             ELSE LET r == evaluate(func.body, local_env, st2, depth + 1)
                  IN  IF r.st.status # "ok" THEN r
                      ELSE R(r.val, Emit(r.st, [ev |-> "return", local_env |-> local_env,
                                                depth |-> depth]))

\* [evaluate(e, env) for e in exps]
eval_list(exps, idx, env, st, vals, depth) ==
    IF idx > Len(exps) THEN [vals |-> vals, st |-> st]
    ELSE LET r == evaluate(exps[idx], env, st, depth)
         IN  IF r.st.status # "ok" THEN [vals |-> vals, st |-> r.st]
             ELSE eval_list(exps, idx + 1, env, r.st, Append(vals, r.val), depth)

\* the loops of + and *: evaluate, check_number, accumulate
eval_fold(op, exps, idx, env, st, result, depth) ==
    IF idx > Len(exps) THEN R(IntV(result), st)
    ELSE LET r == evaluate(exps[idx], env, st, depth)
         IN  IF r.st.status # "ok" THEN R(NoValue, r.st)
             ELSE LET st1 == check_number(r.val, r.st)
                  IN  IF st1.status # "ok" THEN R(NoValue, st1)
                      ELSE eval_fold(op, exps, idx + 1, env, st1,
                                     IF op = "+" THEN result + AsNumber(r.val)
                                     ELSE result * AsNumber(r.val), depth)

\* check_number(vals[0], op); check_number(vals[1], op) ... in order
RECURSIVE check_numbers(_, _, _)
check_numbers(vals, idx, st) ==
    IF idx > Len(vals) THEN st
    ELSE LET st1 == check_number(vals[idx], st)
         IN  IF st1.status # "ok" THEN st1 ELSE check_numbers(vals, idx + 1, st1)

\* all(v == vals[0] for v in vals)
all_equal(vals) == \A n \in 1..Len(vals) : AsNumber(vals[n]) = AsNumber(vals[1])

\* the forms - / mod > < =: every operand is evaluated, then every one checked
eval_strict(expr, env, st, depth) ==
    LET l == eval_list(expr.exps, 1, env, st, <<>>, depth) IN
    IF l.st.status # "ok" THEN R(NoValue, l.st)
    ELSE LET st1 == check_numbers(l.vals, 1, l.st)
             a == AsNumber(l.vals[1])
             b == AsNumber(l.vals[2])
         IN  IF st1.status # "ok" THEN R(NoValue, st1)
             ELSE CASE expr.op = "-" -> R(IntV(a - b), st1)
                    [] expr.op = "/" ->
                         IF b = 0 THEN R(NoValue, Raise(st1, "ZeroDivisionError", "division"))
                         ELSE R(IntV(FloorDiv(a, b)), st1)
                    [] expr.op = "mod" ->
                         IF b = 0 THEN R(NoValue, Raise(st1, "ZeroDivisionError", "modulo"))
                         ELSE R(IntV(FloorMod(a, b)), st1)
                    [] expr.op = ">" -> R(BoolV(a > b), st1)
                    [] expr.op = "<" -> R(BoolV(a < b), st1)
                    [] expr.op = "=" -> R(BoolV(all_equal(l.vals)), st1)

\* evaluates every operand before it decides
eval_logic_eager(expr, idx, env, st, depth) ==
    IF idx > Len(expr.exps) THEN R(BoolV(expr.op = "and"), st)
    ELSE LET r == evaluate(expr.exps[idx], env, st, depth)
         IN  IF r.st.status # "ok" THEN R(NoValue, r.st)
             ELSE LET st1 == check_boolean(r.val, r.st)
                  IN  IF st1.status # "ok" THEN R(NoValue, st1)
                      ELSE LET rest == eval_logic_eager(expr, idx + 1, env, st1, depth)
                           IN  IF rest.st.status # "ok" THEN rest
                               ELSE IF expr.op = "and" /\ ~Truthy(r.val)
                                    THEN R(BoolV(FALSE), rest.st)
                               ELSE IF expr.op = "or" /\ Truthy(r.val)
                                    THEN R(BoolV(TRUE), rest.st)
                               ELSE rest

\* the loops of and / or: evaluate, check_boolean, return at the deciding operand
eval_logic(expr, idx, env, st, depth) ==
    IF idx > Len(expr.exps) THEN R(BoolV(expr.op = "and"), st)
    ELSE LET r == evaluate(expr.exps[idx], env, st, depth)
         IN  IF r.st.status # "ok" THEN R(NoValue, r.st)
             ELSE LET st1 == check_boolean(r.val, r.st)
                  IN  IF st1.status # "ok" THEN R(NoValue, st1)
                      ELSE IF expr.op = "and" /\ ~Truthy(r.val) THEN R(BoolV(FALSE), st1)
                      ELSE IF expr.op = "or" /\ Truthy(r.val) THEN R(BoolV(TRUE), st1)
                      ELSE eval_logic(expr, idx + 1, env, st1, depth)

\* evaluates both branches and returns the chosen one's value
eval_if_eager(expr, env, st, depth) ==
    LET test == evaluate(expr.test, env, st, depth) IN
    IF test.st.status # "ok" THEN R(NoValue, test.st)
    ELSE LET st1 == check_boolean(test.val, test.st)
         IN  IF st1.status # "ok" THEN R(NoValue, st1)
             ELSE LET t == evaluate(expr.then_exp, env, st1, depth)
                  IN  IF t.st.status # "ok" THEN t
                      ELSE LET e == evaluate(expr.else_exp, env, t.st, depth)
                           IN  IF e.st.status # "ok" THEN e
                               ELSE IF Truthy(test.val) THEN R(t.val, e.st) ELSE e

\* the if form
eval_if(expr, env, st, depth) ==
    LET test == evaluate(expr.test, env, st, depth) IN
    IF test.st.status # "ok" THEN R(NoValue, test.st)
    ELSE LET st1 == check_boolean(test.val, test.st)
         IN  IF st1.status # "ok" THEN R(NoValue, st1)
             ELSE evaluate(IF Truthy(test.val) THEN expr.then_exp ELSE expr.else_exp,
                           env, st1, depth)

\* the fun-body form: for def_stmt in expr[1]: evaluate(def_stmt, env)
eval_fun_body(expr, idx, env, st, depth) ==
    IF idx > Len(expr.defs) THEN evaluate(expr.body, env, st, depth)
    ELSE LET r == evaluate(expr.defs[idx], env, st, depth)
         IN  IF r.st.status # "ok" THEN R(NoValue, r.st)
             ELSE eval_fun_body(expr, idx + 1, env, r.st, depth)

\* the forms print-num and print-bool
eval_print(expr, env, st, depth) ==
    LET r == evaluate(expr.exp, env, st, depth) IN
    IF r.st.status # "ok" THEN R(NoValue, r.st)
    ELSE LET st1 == IF expr.op = "print-num" THEN check_number(r.val, r.st)
                    ELSE check_boolean(r.val, r.st)
         IN  IF st1.status # "ok" THEN R(NoValue, st1)
             ELSE R(r.val, print(st1, IF expr.op = "print-num" THEN str(r.val)
                                      ELSE IF Truthy(r.val) THEN T_true ELSE T_false))

\* the define form
eval_define(expr, env, st, depth) ==
    LET r == evaluate(expr.exp, env, st, depth) IN
    IF r.st.status # "ok" THEN R(NoValue, r.st)
    ELSE LET st1 == Environment_define(r.st, env, expr.name, r.val)
         IN  IF st1.status # "ok" THEN R(NoValue, st1) ELSE R(r.val, st1)

\* the variable form: env.lookup(expr[1])
eval_var(expr, env, st) ==
    LET found == Environment_lookup(st.envs, env, expr.name) IN
    IF found = 0
    THEN R(NoValue, Raise(Emit(st, [ev |-> "lookup", env |-> env, name |-> expr.name,
                                    found |-> 0, val |-> NoValue]),
                          "RuntimeError", "Undefined variable"))
    ELSE R(st.envs[found].vars[expr.name],
           Emit(st, [ev |-> "lookup", env |-> env, name |-> expr.name, found |-> found,
                     val |-> st.envs[found].vars[expr.name]]))

\* the not form
eval_not(expr, env, st, depth) ==
    LET r == evaluate(expr.exp, env, st, depth) IN
    IF r.st.status # "ok" THEN R(NoValue, r.st)
    ELSE LET st1 == check_boolean(r.val, r.st)
         IN  IF st1.status # "ok" THEN R(NoValue, st1)
             ELSE R(BoolV(~Truthy(r.val)), st1)

\* the call form
eval_call(expr, env, st, depth) ==
    LET func == evaluate(expr.func, env, st, depth) IN
    IF func.st.status # "ok" THEN R(NoValue, func.st)
    ELSE IF func.val.kind # "Function"
         THEN R(NoValue, Raise(func.st, "RuntimeError", "Not a function"))
    ELSE LET args == eval_list(expr.args, 1, env, func.st, <<>>, depth)
         IN  IF args.st.status # "ok" THEN R(NoValue, args.st)
             ELSE Function_call(func.val, args.vals, args.st, depth)

\* the body of evaluate: the dispatch on the form
eval_form(expr, env, st, depth) ==
    CASE expr.op = "lit" -> R(expr.val, st)
      [] expr.op = "var" -> eval_var(expr, env, st)
      [] expr.op \in {"print-num", "print-bool"} -> eval_print(expr, env, st, depth)
      [] expr.op = "define" -> eval_define(expr, env, st, depth)
      [] expr.op = "fun" -> R(Function(expr.params, expr.body, env), st)
      [] expr.op = "fun-body" -> eval_fun_body(expr, 1, env, st, depth)
      [] expr.op = "if" -> eval_if(expr, env, st, depth)
      [] expr.op = "+" -> eval_fold("+", expr.exps, 1, env, st, 0, depth)
      [] expr.op = "*" -> eval_fold("*", expr.exps, 1, env, st, 1, depth)
      [] expr.op \in {"-", "/", "mod", ">", "<", "="} -> eval_strict(expr, env, st, depth)
      [] expr.op \in {"and", "or"} -> eval_logic(expr, 1, env, st, depth)
      [] expr.op = "not" -> eval_not(expr, env, st, depth)
      [] expr.op = "call" -> eval_call(expr, env, st, depth)
      [] OTHER -> R(NoValue, Raise(st, "RuntimeError", "Unknown operation"))

\* evaluate(expr, env): one call, at nesting depth `depth`
evaluate(expr, env, st, depth) ==
    IF depth > MaxDepth THEN R(NoValue, Raise(st, "RecursionError", "maximum recursion depth"))
    ELSE LET st1 == Emit(st, [ev |-> "enter", node |-> expr, env |-> env, depth |-> depth])
             r == eval_form(expr, env, st1, depth + 1)
         IN  IF r.st.status # "ok" THEN r
             ELSE R(r.val, Emit(r.st, [ev |-> "exit", val |-> r.val, depth |-> depth]))

(***************************************************************************)
(* Input texts.  Every program is spelled character by character, as the   *)
(* tokenizer reads it; the comment above each gives the text.  The source  *)
(* text main() reads is one of Programs, one of the sequences of at most   *)
(* MaxStmts statements of the pool S1..S10, or any text of at most         *)
(* MaxTextLen characters over TextAlphabet.                                *)
(***************************************************************************)
\* (define x 1) (define f (fun () x)) (define g (fun (x) (f))) (print-num (g 2))
P_lexical ==
    <<"(", "d", "e", "f", "i", "n", "e", " ", "x", " ", "1", ")", " ", "(", "d", "e", "f",
      "i", "n", "e", " ", "f", " ", "(", "f", "u", "n", " ", "(", ")", " ", "x", ")", ")",
      " ", "(", "d", "e", "f", "i", "n", "e", " ", "g", " ", "(", "f", "u", "n", " ", "(",
      "x", ")", " ", "(", "f", ")", ")", ")", " ", "(", "p", "r", "i", "n", "t", "-", "n",
      "u", "m", " ", "(", "g", " ", "2", ")", ")">>

\* (define mk (fun (a) (fun (b) (+ a b)))) (define a 5) (define b 7) (print-num ((mk 1) 2))
P_adder ==
    <<"(", "d", "e", "f", "i", "n", "e", " ", "m", "k", " ", "(", "f", "u", "n", " ", "(",
      "a", ")", " ", "(", "f", "u", "n", " ", "(", "b", ")", " ", "(", "+", " ", "a", " ",
      "b", ")", ")", ")", ")", " ", "(", "d", "e", "f", "i", "n", "e", " ", "a", " ", "5",
      ")", " ", "(", "d", "e", "f", "i", "n", "e", " ", "b", " ", "7", ")", " ", "(", "p",
      "r", "i", "n", "t", "-", "n", "u", "m", " ", "(", "(", "m", "k", " ", "1", ")", " ",
      "2", ")", ")">>

\* (define f (fun () y)) (define g (fun (y) (f))) (print-num 1) (print-num (g 2)) (print-num 3)
P_late_bind ==
    <<"(", "d", "e", "f", "i", "n", "e", " ", "f", " ", "(", "f", "u", "n", " ", "(", ")",
      " ", "y", ")", ")", " ", "(", "d", "e", "f", "i", "n", "e", " ", "g", " ", "(", "f",
      "u", "n", " ", "(", "y", ")", " ", "(", "f", ")", ")", ")", " ", "(", "p", "r", "i",
      "n", "t", "-", "n", "u", "m", " ", "1", ")", " ", "(", "p", "r", "i", "n", "t", "-",
      "n", "u", "m", " ", "(", "g", " ", "2", ")", ")", " ", "(", "p", "r", "i", "n", "t",
      "-", "n", "u", "m", " ", "3", ")">>

\* (print-num 1) (+ 1 #t) (print-num 2)
P_type_plus ==
    <<"(", "p", "r", "i", "n", "t", "-", "n", "u", "m", " ", "1", ")", " ", "(", "+", " ",
      "1", " ", "#", "t", ")", " ", "(", "p", "r", "i", "n", "t", "-", "n", "u", "m", " ",
      "2", ")">>

\* (print-bool (and #t 5)) (print-num 2)
P_type_and ==
    <<"(", "p", "r", "i", "n", "t", "-", "b", "o", "o", "l", " ", "(", "a", "n", "d", " ",
      "#", "t", " ", "5", ")", ")", " ", "(", "p", "r", "i", "n", "t", "-", "n", "u", "m",
      " ", "2", ")">>

\* (- #t (print-num 1)) (print-num 2)
P_type_minus ==
    <<"(", "-", " ", "#", "t", " ", "(", "p", "r", "i", "n", "t", "-", "n", "u", "m", " ",
      "1", ")", ")", " ", "(", "p", "r", "i", "n", "t", "-", "n", "u", "m", " ", "2", ")">>

\* (print-num (if 1 2 3))
P_type_if ==
    <<"(", "p", "r", "i", "n", "t", "-", "n", "u", "m", " ", "(", "i", "f", " ", "1", " ",
      "2", " ", "3", ")", ")">>

\* (print-bool 1) (print-num #t)
P_type_print ==
    <<"(", "p", "r", "i", "n", "t", "-", "b", "o", "o", "l", " ", "1", ")", " ", "(", "p",
      "r", "i", "n", "t", "-", "n", "u", "m", " ", "#", "t", ")">>

\* (print-num #f) (print-num 1)
P_type_print_num ==
    <<"(", "p", "r", "i", "n", "t", "-", "n", "u", "m", " ", "#", "f", ")", " ", "(", "p",
      "r", "i", "n", "t", "-", "n", "u", "m", " ", "1", ")">>

\* (print-bool (not 0))
P_type_not ==
    <<"(", "p", "r", "i", "n", "t", "-", "b", "o", "o", "l", " ", "(", "n", "o", "t", " ",
      "0", ")", ")">>

\* (print-num (+ 1 (fun () 1)))
P_type_fun ==
    <<"(", "p", "r", "i", "n", "t", "-", "n", "u", "m", " ", "(", "+", " ", "1", " ", "(",
      "f", "u", "n", " ", "(", ")", " ", "1", ")", ")", ")">>

\* (print-bool (> 1 #f))
P_type_cmp ==
    <<"(", "p", "r", "i", "n", "t", "-", "b", "o", "o", "l", " ", "(", ">", " ", "1", " ",
      "#", "f", ")", ")">>

\* (print-bool (= 1 1 #t)) (print-num 2)
P_type_eq ==
    <<"(", "p", "r", "i", "n", "t", "-", "b", "o", "o", "l", " ", "(", "=", " ", "1", " ",
      "1", " ", "#", "t", ")", ")", " ", "(", "p", "r", "i", "n", "t", "-", "n", "u", "m",
      " ", "2", ")">>

\* (print-bool (or #f 0 #t))
P_type_or ==
    <<"(", "p", "r", "i", "n", "t", "-", "b", "o", "o", "l", " ", "(", "o", "r", " ", "#",
      "f", " ", "0", " ", "#", "t", ")", ")">>

\* (print-num (+ (print-num 4) (* 2 (not 1)) (print-num 5)))
P_type_nested ==
    <<"(", "p", "r", "i", "n", "t", "-", "n", "u", "m", " ", "(", "+", " ", "(", "p", "r",
      "i", "n", "t", "-", "n", "u", "m", " ", "4", ")", " ", "(", "*", " ", "2", " ", "(",
      "n", "o", "t", " ", "1", ")", ")", " ", "(", "p", "r", "i", "n", "t", "-", "n", "u",
      "m", " ", "5", ")", ")", ")">>

\* (print-num 1) (+ 1
P_syn_open ==
    <<"(", "p", "r", "i", "n", "t", "-", "n", "u", "m", " ", "1", ")", " ", "(", "+", " ",
      "1">>

\* (define x 1) (print-num x) (+ 1)
P_syn_arity ==
    <<"(", "d", "e", "f", "i", "n", "e", " ", "x", " ", "1", ")", " ", "(", "p", "r", "i",
      "n", "t", "-", "n", "u", "m", " ", "x", ")", " ", "(", "+", " ", "1", ")">>

\* (print-num 1) (if #t 1)
P_syn_if ==
    <<"(", "p", "r", "i", "n", "t", "-", "n", "u", "m", " ", "1", ")", " ", "(", "i", "f",
      " ", "#", "t", " ", "1", ")">>

\* (print-num 1) (define 1 2)
P_syn_define ==
    <<"(", "p", "r", "i", "n", "t", "-", "n", "u", "m", " ", "1", ")", " ", "(", "d", "e",
      "f", "i", "n", "e", " ", "1", " ", "2", ")">>

\* (define x 1) (fun (1) 1)
P_syn_param ==
    <<"(", "d", "e", "f", "i", "n", "e", " ", "x", " ", "1", ")", " ", "(", "f", "u", "n",
      " ", "(", "1", ")", " ", "1", ")">>

\* (print-num 1) )
P_syn_close ==
    <<"(", "p", "r", "i", "n", "t", "-", "n", "u", "m", " ", "1", ")", " ", ")">>

\* (print-num 1) A
P_syn_upper ==
    <<"(", "p", "r", "i", "n", "t", "-", "n", "u", "m", " ", "1", ")", " ", "A">>

\* (print-num 1) <U+00B2>
P_syn_digit ==
    <<"(", "p", "r", "i", "n", "t", "-", "n", "u", "m", " ", "1", ")", " ", "sup2">>

\* (print-num 1) y (print-num 2)
P_rt_undefined ==
    <<"(", "p", "r", "i", "n", "t", "-", "n", "u", "m", " ", "1", ")", " ", "y", " ", "(",
      "p", "r", "i", "n", "t", "-", "n", "u", "m", " ", "2", ")">>

\* (print-num 1) ((fun (a) a) (print-num 2) 3) (print-num 4)
P_rt_arity ==
    <<"(", "p", "r", "i", "n", "t", "-", "n", "u", "m", " ", "1", ")", " ", "(", "(", "f",
      "u", "n", " ", "(", "a", ")", " ", "a", ")", " ", "(", "p", "r", "i", "n", "t", "-",
      "n", "u", "m", " ", "2", ")", " ", "3", ")", " ", "(", "p", "r", "i", "n", "t", "-",
      "n", "u", "m", " ", "4", ")">>

\* (define x 5) (print-num x) (define x 6) (print-num x)
P_rt_redefine ==
    <<"(", "d", "e", "f", "i", "n", "e", " ", "x", " ", "5", ")", " ", "(", "p", "r", "i",
      "n", "t", "-", "n", "u", "m", " ", "x", ")", " ", "(", "d", "e", "f", "i", "n", "e",
      " ", "x", " ", "6", ")", " ", "(", "p", "r", "i", "n", "t", "-", "n", "u", "m", " ",
      "x", ")">>

\* (print-num 1) (1 (print-num 2)) (print-num 3)
P_rt_notfun ==
    <<"(", "p", "r", "i", "n", "t", "-", "n", "u", "m", " ", "1", ")", " ", "(", "1", " ",
      "(", "p", "r", "i", "n", "t", "-", "n", "u", "m", " ", "2", ")", ")", " ", "(", "p",
      "r", "i", "n", "t", "-", "n", "u", "m", " ", "3", ")">>

\* (print-num (/ 7 2)) (print-num (/ 1 0)) (print-num 3)
P_rt_zero ==
    <<"(", "p", "r", "i", "n", "t", "-", "n", "u", "m", " ", "(", "/", " ", "7", " ", "2",
      ")", ")", " ", "(", "p", "r", "i", "n", "t", "-", "n", "u", "m", " ", "(", "/", " ",
      "1", " ", "0", ")", ")", " ", "(", "p", "r", "i", "n", "t", "-", "n", "u", "m", " ",
      "3", ")">>

\* (print-num 1) ((fun (a a) a) 1 2) (print-num 2)
P_rt_param_twice ==
    <<"(", "p", "r", "i", "n", "t", "-", "n", "u", "m", " ", "1", ")", " ", "(", "(", "f",
      "u", "n", " ", "(", "a", " ", "a", ")", " ", "a", ")", " ", "1", " ", "2", ")", " ",
      "(", "p", "r", "i", "n", "t", "-", "n", "u", "m", " ", "2", ")">>

\* (define f (fun () (f))) (print-num 1) (f) (print-num 2)
P_rt_loop ==
    <<"(", "d", "e", "f", "i", "n", "e", " ", "f", " ", "(", "f", "u", "n", " ", "(", ")",
      " ", "(", "f", ")", ")", ")", " ", "(", "p", "r", "i", "n", "t", "-", "n", "u", "m",
      " ", "1", ")", " ", "(", "f", ")", " ", "(", "p", "r", "i", "n", "t", "-", "n", "u",
      "m", " ", "2", ")">>

\* (define x 1) (define f (fun (x) (define y (+ x 1)) y)) (print-num (f 2)) (print-num x) (define x 6) (print-num x)
P_shadow ==
    <<"(", "d", "e", "f", "i", "n", "e", " ", "x", " ", "1", ")", " ", "(", "d", "e", "f",
      "i", "n", "e", " ", "f", " ", "(", "f", "u", "n", " ", "(", "x", ")", " ", "(", "d",
      "e", "f", "i", "n", "e", " ", "y", " ", "(", "+", " ", "x", " ", "1", ")", ")", " ",
      "y", ")", ")", " ", "(", "p", "r", "i", "n", "t", "-", "n", "u", "m", " ", "(", "f",
      " ", "2", ")", ")", " ", "(", "p", "r", "i", "n", "t", "-", "n", "u", "m", " ", "x",
      ")", " ", "(", "d", "e", "f", "i", "n", "e", " ", "x", " ", "6", ")", " ", "(", "p",
      "r", "i", "n", "t", "-", "n", "u", "m", " ", "x", ")">>

\* (define f (fun (x) (define x 2) x)) (print-num 1) (f 1) (print-num 2)
P_local_redefine ==
    <<"(", "d", "e", "f", "i", "n", "e", " ", "f", " ", "(", "f", "u", "n", " ", "(", "x",
      ")", " ", "(", "d", "e", "f", "i", "n", "e", " ", "x", " ", "2", ")", " ", "x", ")",
      ")", " ", "(", "p", "r", "i", "n", "t", "-", "n", "u", "m", " ", "1", ")", " ", "(",
      "f", " ", "1", ")", " ", "(", "p", "r", "i", "n", "t", "-", "n", "u", "m", " ", "2",
      ")">>

\* (define f (fun (n) (define m (- n 1)) (if (< n 1) 0 (+ n (f m))))) (print-num (f 2)) (print-num (f 1))
P_recursive ==
    <<"(", "d", "e", "f", "i", "n", "e", " ", "f", " ", "(", "f", "u", "n", " ", "(", "n",
      ")", " ", "(", "d", "e", "f", "i", "n", "e", " ", "m", " ", "(", "-", " ", "n", " ",
      "1", ")", ")", " ", "(", "i", "f", " ", "(", "<", " ", "n", " ", "1", ")", " ", "0",
      " ", "(", "+", " ", "n", " ", "(", "f", " ", "m", ")", ")", ")", ")", ")", " ", "(",
      "p", "r", "i", "n", "t", "-", "n", "u", "m", " ", "(", "f", " ", "2", ")", ")", " ",
      "(", "p", "r", "i", "n", "t", "-", "n", "u", "m", " ", "(", "f", " ", "1", ")", ")">>

\* (define f (fun (a) (define b a) b)) (print-num (f (define z 3))) (print-num z) (print-num (f z))
P_arg_define ==
    <<"(", "d", "e", "f", "i", "n", "e", " ", "f", " ", "(", "f", "u", "n", " ", "(", "a",
      ")", " ", "(", "d", "e", "f", "i", "n", "e", " ", "b", " ", "a", ")", " ", "b", ")",
      ")", " ", "(", "p", "r", "i", "n", "t", "-", "n", "u", "m", " ", "(", "f", " ", "(",
      "d", "e", "f", "i", "n", "e", " ", "z", " ", "3", ")", ")", ")", " ", "(", "p", "r",
      "i", "n", "t", "-", "n", "u", "m", " ", "z", ")", " ", "(", "p", "r", "i", "n", "t",
      "-", "n", "u", "m", " ", "(", "f", " ", "z", ")", ")">>

\* (print-num (if #t 1 (mod 1 0))) (print-num (if #f y 2))
P_if_skip ==
    <<"(", "p", "r", "i", "n", "t", "-", "n", "u", "m", " ", "(", "i", "f", " ", "#", "t",
      " ", "1", " ", "(", "m", "o", "d", " ", "1", " ", "0", ")", ")", ")", " ", "(", "p",
      "r", "i", "n", "t", "-", "n", "u", "m", " ", "(", "i", "f", " ", "#", "f", " ", "y",
      " ", "2", ")", ")">>

\* (if #f (print-num 1) (print-num 2)) (if #t (define a 1) (define b 2)) (print-num a)
P_if_print ==
    <<"(", "i", "f", " ", "#", "f", " ", "(", "p", "r", "i", "n", "t", "-", "n", "u", "m",
      " ", "1", ")", " ", "(", "p", "r", "i", "n", "t", "-", "n", "u", "m", " ", "2", ")",
      ")", " ", "(", "i", "f", " ", "#", "t", " ", "(", "d", "e", "f", "i", "n", "e", " ",
      "a", " ", "1", ")", " ", "(", "d", "e", "f", "i", "n", "e", " ", "b", " ", "2", ")",
      ")", " ", "(", "p", "r", "i", "n", "t", "-", "n", "u", "m", " ", "a", ")">>

\* (print-bool (and #t #f (print-bool #t))) (print-bool (and #t #t #t))
P_and_skip ==
    <<"(", "p", "r", "i", "n", "t", "-", "b", "o", "o", "l", " ", "(", "a", "n", "d", " ",
      "#", "t", " ", "#", "f", " ", "(", "p", "r", "i", "n", "t", "-", "b", "o", "o", "l",
      " ", "#", "t", ")", ")", ")", " ", "(", "p", "r", "i", "n", "t", "-", "b", "o", "o",
      "l", " ", "(", "a", "n", "d", " ", "#", "t", " ", "#", "t", " ", "#", "t", ")", ")">>

\* (print-bool (or #f #t y)) (print-bool (or #f #f)) (print-bool (or #t 1))
P_or_skip ==
    <<"(", "p", "r", "i", "n", "t", "-", "b", "o", "o", "l", " ", "(", "o", "r", " ", "#",
      "f", " ", "#", "t", " ", "y", ")", ")", " ", "(", "p", "r", "i", "n", "t", "-", "b",
      "o", "o", "l", " ", "(", "o", "r", " ", "#", "f", " ", "#", "f", ")", ")", " ", "(",
      "p", "r", "i", "n", "t", "-", "b", "o", "o", "l", " ", "(", "o", "r", " ", "#", "t",
      " ", "1", ")", ")">>

\* (print-num (if #t 1 (mod 1 0))) (print-bool (and #t #f (print-bool #t))) (print-bool (or #f #t y))
P_non_strict ==
    <<"(", "p", "r", "i", "n", "t", "-", "n", "u", "m", " ", "(", "i", "f", " ", "#", "t",
      " ", "1", " ", "(", "m", "o", "d", " ", "1", " ", "0", ")", ")", ")", " ", "(", "p",
      "r", "i", "n", "t", "-", "b", "o", "o", "l", " ", "(", "a", "n", "d", " ", "#", "t",
      " ", "#", "f", " ", "(", "p", "r", "i", "n", "t", "-", "b", "o", "o", "l", " ", "#",
      "t", ")", ")", ")", " ", "(", "p", "r", "i", "n", "t", "-", "b", "o", "o", "l", " ",
      "(", "o", "r", " ", "#", "f", " ", "#", "t", " ", "y", ")", ")">>

\* (print-bool (and #f 5)) (print-bool (and #t #t 5))
P_and_type ==
    <<"(", "p", "r", "i", "n", "t", "-", "b", "o", "o", "l", " ", "(", "a", "n", "d", " ",
      "#", "f", " ", "5", ")", ")", " ", "(", "p", "r", "i", "n", "t", "-", "b", "o", "o",
      "l", " ", "(", "a", "n", "d", " ", "#", "t", " ", "#", "t", " ", "5", ")", ")">>

\* (print-num (+ 1 2 3)) (print-num (* 2 3 -1)) (print-num (- 5 7)) (print-num (mod -7 2))
P_arith ==
    <<"(", "p", "r", "i", "n", "t", "-", "n", "u", "m", " ", "(", "+", " ", "1", " ", "2",
      " ", "3", ")", ")", " ", "(", "p", "r", "i", "n", "t", "-", "n", "u", "m", " ", "(",
      "*", " ", "2", " ", "3", " ", "-", "1", ")", ")", " ", "(", "p", "r", "i", "n", "t",
      "-", "n", "u", "m", " ", "(", "-", " ", "5", " ", "7", ")", ")", " ", "(", "p", "r",
      "i", "n", "t", "-", "n", "u", "m", " ", "(", "m", "o", "d", " ", "-", "7", " ", "2",
      ")", ")">>

\* (print-bool (> 2 1)) (print-bool (< 2 1)) (print-bool (= 1 1 1)) (print-bool (not #t))
P_compare ==
    <<"(", "p", "r", "i", "n", "t", "-", "b", "o", "o", "l", " ", "(", ">", " ", "2", " ",
      "1", ")", ")", " ", "(", "p", "r", "i", "n", "t", "-", "b", "o", "o", "l", " ", "(",
      "<", " ", "2", " ", "1", ")", ")", " ", "(", "p", "r", "i", "n", "t", "-", "b", "o",
      "o", "l", " ", "(", "=", " ", "1", " ", "1", " ", "1", ")", ")", " ", "(", "p", "r",
      "i", "n", "t", "-", "b", "o", "o", "l", " ", "(", "n", "o", "t", " ", "#", "t", ")",
      ")">>

\* (define x 1) (+ x 2) (if (> x 0) x 0)
P_quiet ==
    <<"(", "d", "e", "f", "i", "n", "e", " ", "x", " ", "1", ")", " ", "(", "+", " ", "x",
      " ", "2", ")", " ", "(", "i", "f", " ", "(", ">", " ", "x", " ", "0", ")", " ", "x",
      " ", "0", ")">>

\* (define x 1) (+ x #t) (define y 2)
P_quiet_type ==
    <<"(", "d", "e", "f", "i", "n", "e", " ", "x", " ", "1", ")", " ", "(", "+", " ", "x",
      " ", "#", "t", ")", " ", "(", "d", "e", "f", "i", "n", "e", " ", "y", " ", "2", ")">>

\* (define f (fun () (f))) (f)
P_quiet_loop ==
    <<"(", "d", "e", "f", "i", "n", "e", " ", "f", " ", "(", "f", "u", "n", " ", "(", ")",
      " ", "(", "f", ")", ")", ")", " ", "(", "f", ")">>

\* (print-num 1) ; note\n(print-num -2)
P_comment ==
    <<"(", "p", "r", "i", "n", "t", "-", "n", "u", "m", " ", "1", ")", " ", ";", " ", "n",
      "o", "t", "e", "\n", "(", "p", "r", "i", "n", "t", "-", "n", "u", "m", " ", "-",
      "2", ")">>

\* (print-num (+1 2))
P_stuck ==
    <<"(", "p", "r", "i", "n", "t", "-", "n", "u", "m", " ", "(", "+", "1", " ", "2", ")",
      ")">>

\* (define x 1)
S1 ==
    <<"(", "d", "e", "f", "i", "n", "e", " ", "x", " ", "1", ")">>

\* (define x #t)
S2 ==
    <<"(", "d", "e", "f", "i", "n", "e", " ", "x", " ", "#", "t", ")">>

\* (define f (fun (y) (+ x y)))
S3 ==
    <<"(", "d", "e", "f", "i", "n", "e", " ", "f", " ", "(", "f", "u", "n", " ", "(", "y",
      ")", " ", "(", "+", " ", "x", " ", "y", ")", ")", ")">>

\* (print-num x)
S4 ==
    <<"(", "p", "r", "i", "n", "t", "-", "n", "u", "m", " ", "x", ")">>

\* (print-bool x)
S5 ==
    <<"(", "p", "r", "i", "n", "t", "-", "b", "o", "o", "l", " ", "x", ")">>

\* (print-num (f x))
S6 ==
    <<"(", "p", "r", "i", "n", "t", "-", "n", "u", "m", " ", "(", "f", " ", "x", ")", ")">>

\* (f)
S7 ==
    <<"(", "f", ")">>

\* (if x 1 #f)
S8 ==
    <<"(", "i", "f", " ", "x", " ", "1", " ", "#", "f", ")">>

\* (x 1)
S9 ==
    <<"(", "x", " ", "1", ")">>

\* (+ x 1
S10 ==
    <<"(", "+", " ", "x", " ", "1">>

Programs ==
    {P_lexical, P_adder, P_late_bind, P_type_plus, P_type_and,
     P_type_minus, P_type_if, P_type_print, P_type_print_num, P_type_not,
     P_type_fun, P_type_cmp, P_type_eq, P_type_or, P_type_nested,
     P_syn_open, P_syn_arity, P_syn_if, P_syn_define, P_syn_param,
     P_syn_close, P_syn_upper, P_syn_digit, P_rt_undefined, P_rt_arity,
     P_rt_redefine, P_rt_notfun, P_rt_zero, P_rt_param_twice, P_rt_loop,
     P_shadow, P_local_redefine, P_recursive, P_arg_define, P_if_skip,
     P_if_print, P_and_skip, P_or_skip, P_non_strict, P_and_type,
     P_arith, P_compare, P_quiet, P_quiet_type, P_quiet_loop,
     P_comment, P_stuck}

Statements == {S1, S2, S3, S4, S5, S6, S7, S8, S9, S10}

\* the statements of a sequence, one after the other with a space between
RECURSIVE JoinStatements(_)
JoinStatements(ss) ==
    IF Len(ss) = 1 THEN ss[1] ELSE ss[1] \o <<" ">> \o JoinStatements(Tail(ss))

\* every program of at most MaxStmts statements of the pool
StatementSequences ==
    {JoinStatements(ss) : ss \in UNION {[1..n -> Statements] : n \in 1..MaxStmts}}

\* the characters of the short texts
TextAlphabet == {"(", ")", " ", "+", "-", "1", "a", "#", "t", ";", "\n", "sup2"}

\* every text of at most MaxTextLen characters over TextAlphabet
ShortTexts == UNION {[1..n -> TextAlphabet] : n \in 0..MaxTextLen}

(***************************************************************************)
(* Driver: main().  pc is the place in main: in the loop of tokenize, at   *)
(* the call of parse_program, in the loop over the statements, or done.    *)
(* status is the exit status of the process once it has ended, exc the     *)
(* exception that ended the try block.                                     *)
(***************************************************************************)
\* the except clauses with the commented-out debug line of `except Exception`
\* writing to standard output
except_clause_debug(exception) ==
    CASE exception = "SyntaxError" -> <<SyntaxErrorLine>>
      [] exception = "SystemExit" -> <<>>
      [] OTHER -> <<<<"E", "r", "r", "o", "r">>>>

\* the lines the except clauses of main write for an exception; SystemExit is
\* not an Exception and passes through both
except_clause(exception) ==
    CASE exception = "SyntaxError" -> <<SyntaxErrorLine>>
      [] exception = "SystemExit" -> <<>>
      [] OTHER -> <<>>

Init ==
    /\ code \in Programs \cup StatementSequences \cup ShortTexts
    /\ i = 0
    /\ tokens = <<>>
    /\ pc = "tokenize"
    /\ ast = <<>>
    /\ k = 0
    /\ envs = <<>>
    /\ out = <<>>
    /\ log = <<>>
    /\ status = "running"
    /\ exc = "none"

\* one iteration of the while loop of tokenize
Tokenize ==
    /\ pc = "tokenize"
    /\ i < Len(code)
    /\ Len(tokens) < Len(code) + MaxStall
    /\ LET r == tokenize_iter(code, i, tokens)
       IN  i' = r.i /\ tokens' = r.tokens
    /\ UNCHANGED <<code, pc, ast, k, envs, out, log, status, exc>>

\* the loop of tokenize ends: return tokens
TokenizeReturn ==
    /\ pc = "tokenize"
    /\ i >= Len(code)
    /\ pc' = "parse"
    /\ UNCHANGED <<code, i, tokens, ast, k, envs, out, log, status, exc>>

\* ast = parser.parse_program(); env = Environment(), or the except clause
Parse ==
    /\ pc = "parse"
    /\ LET r == parse_program(tokens)
       IN  IF r.res = "ok"
           THEN /\ ast' = r.stmts
                /\ k' = 1
                /\ envs' = Environment(<<>>, 0)
                /\ pc' = "eval"
                /\ UNCHANGED <<out, status, exc>>
           ELSE /\ out' = out \o except_clause(r.res)
                /\ exc' = r.res
                /\ pc' = "done"
                /\ status' = "0"
                /\ UNCHANGED <<ast, k, envs>>
    /\ UNCHANGED <<code, i, tokens, log>>

\* one iteration of `for stmt in ast[1]: evaluate(stmt, env)`, or the exception
\* that ends the loop
EvalStmt ==
    /\ pc = "eval"
    /\ k <= Len(ast)
    /\ LET r == evaluate(ast[k], 1, [envs |-> envs, out |-> out, log |-> log,
                                     status |-> "ok"], 0)
       IN  /\ envs' = r.st.envs
           /\ log' = r.st.log
           /\ IF r.st.status = "ok"
              THEN /\ k' = k + 1
                   /\ out' = r.st.out
                   /\ UNCHANGED <<pc, status, exc>>
              ELSE /\ out' = r.st.out \o except_clause(r.st.status)
                   /\ exc' = r.st.status
                   /\ pc' = "done"
                   /\ status' = "0"
                   /\ UNCHANGED k
    /\ UNCHANGED <<code, i, tokens, ast>>

\* the loop over the statements ends and main returns
MainReturn ==
    /\ pc = "eval"
    /\ k > Len(ast)
    /\ pc' = "done"
    /\ status' = "0"
    /\ UNCHANGED <<code, i, tokens, ast, k, envs, out, log, exc>>

Next == Tokenize \/ TokenizeReturn \/ Parse \/ EvalStmt \/ MainReturn

Spec == Init /\ [][Next]_vars

(***************************************************************************)
(* Reading the history.  An "enter" event at index p and nesting depth d   *)
(* opens the activation of one evaluate call; its "exit" event is the next *)
(* exit at depth d, and an activation an exception left has none.  The     *)
(* direct sub-evaluations of the call are the enter events at depth d + 1  *)
(* inside the activation.                                                  *)
(***************************************************************************)
Events == 1..Len(log)

Min(S) == CHOOSE x \in S : \A y \in S : x <= y

RECURSIVE Ascending(_)
Ascending(S) == IF S = {} THEN <<>> ELSE <<Min(S)>> \o Ascending(S \ {Min(S)})

\* the exit event of the activation opened at p, 0 if it never returned
ExitOf(p) ==
    LET S == {q \in (p + 1)..Len(log) :
                 log[q].ev = "exit" /\ log[q].depth = log[p].depth}
    IN  IF S = {} THEN 0 ELSE Min(S)

\* the last event of the activation opened at p
EndOf(p) == IF ExitOf(p) = 0 THEN Len(log) ELSE ExitOf(p)

\* the direct sub-evaluations of the activation opened at p, in order
Children(p) ==
    Ascending({c \in (p + 1)..EndOf(p) :
                  log[c].ev = "enter" /\ log[c].depth = log[p].depth + 1})

\* the "return" event of the invocation whose "call" event is c, 0 if none
ReturnOf(c) ==
    LET S == {q \in (c + 1)..Len(log) :
                 log[q].ev = "return" /\ log[q].depth = log[c].depth}
    IN  IF S = {} THEN 0 ELSE Min(S)

\* the lines the print events up to index n wrote, in order
RECURSIVE PrintedLines(_)
PrintedLines(n) ==
    IF n = 0 THEN <<>>
    ELSE IF log[n].ev = "print" THEN Append(PrintedLines(n - 1), log[n].line)
    ELSE PrintedLines(n - 1)

\* the top-level statements whose evaluation has begun
StatementsEntered == Cardinality({p \in Events : log[p].ev = "enter" /\ log[p].depth = 0})

\* environment e bound the name before event p
BoundAt(p, e, name) ==
    \E m \in 1..(p - 1) : log[m].ev = "define" /\ log[m].env = e /\ log[m].name = name

\* the first environment of the chain of e that bound the name before event p
RECURSIVE FirstBinding(_, _, _)
FirstBinding(p, e, name) ==
    IF BoundAt(p, e, name) THEN e
    ELSE IF envs[e].parent = 0 THEN 0
    ELSE FirstBinding(p, envs[e].parent, name)

\* the program parsed: main went on to the loop over the statements
Parsed == pc = "eval" \/ (pc = "done" /\ exc \notin {"SyntaxError", "ValueError"})

\* a print-num or print-bool form occurs in the node
RECURSIVE HasPrintForm(_)
HasPrintForm(node) ==
    CASE node.op \in {"print-num", "print-bool"} -> TRUE
      [] node.op \in {"lit", "var"} -> FALSE
      [] node.op \in {"define", "not"} -> HasPrintForm(node.exp)
      [] node.op = "fun" -> HasPrintForm(node.body)
      [] node.op = "fun-body" ->
             HasPrintForm(node.body)
             \/ \E n \in 1..Len(node.defs) : HasPrintForm(node.defs[n])
      [] node.op = "if" ->
             HasPrintForm(node.test) \/ HasPrintForm(node.then_exp)
             \/ HasPrintForm(node.else_exp)
      [] node.op = "call" ->
             HasPrintForm(node.func) \/ \E n \in 1..Len(node.args) : HasPrintForm(node.args[n])
      [] OTHER -> \E n \in 1..Len(node.exps) : HasPrintForm(node.exps[n])

NoPrintForms == \A n \in 1..Len(ast) : ~HasPrintForm(ast[n])

\* the heap holds exactly the bindings the define events made, with their values
HeapIsTheDefines ==
    /\ \A p \in Events : log[p].ev = "define" =>
           /\ log[p].env \in 1..Len(envs)
           /\ log[p].name \in DOMAIN envs[log[p].env].vars
           /\ envs[log[p].env].vars[log[p].name] = log[p].val
    /\ \A e \in 1..Len(envs) : \A name \in DOMAIN envs[e].vars :
           \E p \in Events : log[p].ev = "define" /\ log[p].env = e /\ log[p].name = name

(***************************************************************************)
(* C1.  Lexical scoping: a closure literal captures the environment it is  *)
(* evaluated in, and a name looked up in the local environment of an       *)
(* invocation, when that environment does not bind it, resolves to the     *)
(* first binding on the chain of the captured environment (or to none when *)
(* that chain has none), with that binding's value; the call site's        *)
(* environment plays no part.                                              *)
(***************************************************************************)
C1_LexicalScoping ==
    /\ \A p \in Events :
         (log[p].ev = "enter" /\ log[p].node.op = "fun" /\ ExitOf(p) # 0) =>
             log[ExitOf(p)].val.closure_env = log[p].env
    /\ \A p \in Events : \A c \in Events :
         (log[p].ev = "lookup" /\ log[c].ev = "call" /\ log[c].local_env = log[p].env
          /\ ~BoundAt(p, log[p].env, log[p].name)) =>
             /\ log[p].found = FirstBinding(p, log[c].closure_env, log[p].name)
             /\ log[p].found # 0 =>
                    \E m \in 1..(p - 1) :
                        /\ log[m].ev = "define"
                        /\ log[m].env = log[p].found
                        /\ log[m].name = log[p].name
                        /\ log[m].val = log[p].val

\* the environment the call form of invocation c was evaluated in
CallerOf(c) ==
    LET S == {q \in 1..(c - 1) : log[q].ev = "enter" /\ log[q].node.op = "call"
                                 /\ log[q].depth = log[c].depth - 1}
    IN  log[CHOOSE q \in S : \A r \in S : r <= q].env

\* a free name of a closure body resolved on the captured chain while the call
\* site's chain binds the same name elsewhere, to another value
C1_Witness ==
    \E p \in Events : \E c \in Events :
        /\ log[p].ev = "lookup" /\ log[c].ev = "call" /\ log[c].local_env = log[p].env
        /\ ~BoundAt(p, log[p].env, log[p].name)
        /\ log[p].found # 0
        /\ CallerOf(c) # log[c].closure_env
        /\ Environment_lookup(envs, CallerOf(c), log[p].name) \notin {0, log[p].found}
        /\ envs[Environment_lookup(envs, CallerOf(c), log[p].name)].vars[log[p].name]
               # log[p].val
        /\ pc = "done" /\ out = <<<<"1">>>>

(***************************************************************************)
(* C2.  A type violation halts the whole program: the type_error event is  *)
(* the last event of the run, the output is the lines printed before it    *)
(* followed by the one line "Type error!", the statement being evaluated   *)
(* is the last one begun, main writes nothing more, and the process has    *)
(* ended with status 0.                                                    *)
(***************************************************************************)
C2_TypeViolationHalts ==
    \A p \in Events : log[p].ev = "type_error" =>
        /\ p = Len(log)
        /\ out = Append(PrintedLines(p), TypeErrorLine)
        /\ pc = "done"
        /\ exc = "SystemExit"
        /\ status = "0"
        /\ StatementsEntered = k

\* a type violation after some output, with a statement left unevaluated
C2_Witness ==
    /\ Len(log) > 0 /\ log[Len(log)].ev = "type_error"
    /\ Len(out) >= 2
    /\ k < Len(ast)
    /\ pc = "done"

(***************************************************************************)
(* C3.  No partial execution on a syntax error: when parsing fails, the    *)
(* whole output is the one line "syntax error" and nothing was evaluated.  *)
(***************************************************************************)
C3_SyntaxErrorOnly ==
    (pc = "done" /\ exc \in {"SyntaxError", "ValueError"}) =>
        /\ out = <<SyntaxErrorLine>>
        /\ log = <<>>
        /\ envs = <<>>

(***************************************************************************)
(* C4.  Other runtime errors stop the run silently: a RuntimeError is the  *)
(* last event of the run, the output is exactly the lines printed before   *)
(* it, the statement being evaluated is the last one begun, and the        *)
(* process has ended with status 0.                                        *)
(***************************************************************************)
C4_SilentStop ==
    \A p \in Events : (log[p].ev = "raise" /\ log[p].exc = "RuntimeError") =>
        /\ p = Len(log)
        /\ out = PrintedLines(p)
        /\ pc = "done"
        /\ exc = "RuntimeError"
        /\ status = "0"
        /\ StatementsEntered = k

\* an arity mismatch after some output (one line of it from the arguments of the
\* failing call), with a statement left unevaluated
C4_Witness ==
    /\ Len(log) > 0 /\ log[Len(log)].ev = "raise"
    /\ log[Len(log)].msg = "Arity mismatch"
    /\ Len(out) = 2
    /\ k < Len(ast)
    /\ pc = "done"

(***************************************************************************)
(* C5.  Single assignment per scope: no environment is given the same name *)
(* twice, every binding still has the value its define gave it (a later    *)
(* define of the name, in the same environment or in a descendant, changed *)
(* nothing), and a define of a name the environment already holds fails:   *)
(* it raises at once and binds nothing.                                    *)
(***************************************************************************)
C5_SingleAssignment ==
    /\ HeapIsTheDefines
    /\ \A p \in Events : \A q \in Events :
           (p < q /\ log[p].ev = "define" /\ log[q].ev = "define") =>
               ~(log[p].env = log[q].env /\ log[p].name = log[q].name)
    /\ \A p \in Events : log[p].ev = "redefine" =>
           /\ BoundAt(p, log[p].env, log[p].name)
           /\ p + 1 = Len(log)
           /\ log[p + 1].ev = "raise" /\ log[p + 1].msg = "Redefining variable"

\* a name bound in the global environment was bound again, to another value, in
\* a descendant (a parameter), and a later define of it in the global
\* environment failed; the global binding is the first one
C5_Witness ==
    /\ \E p \in Events : \E q \in Events :
           /\ p < q
           /\ log[p].ev = "define" /\ log[p].env = 1
           /\ log[q].ev = "define" /\ log[q].env > 1 /\ envs[log[q].env].parent = 1
           /\ log[q].name = log[p].name /\ log[q].val # log[p].val
           /\ envs[1].vars[log[p].name] = log[p].val
           /\ \E r \in Events :
                  q < r /\ log[r].ev = "redefine" /\ log[r].env = 1
                  /\ log[r].name = log[p].name
    /\ pc = "done"

(***************************************************************************)
(* C6.  The unchosen path of a non-strict form is never evaluated: an if   *)
(* evaluates its test and then only the branch the test's value selects;   *)
(* and / or evaluate their operands in order and none after the first      *)
(* false / true one.  Everything that happens during the form (output,     *)
(* a binding, a lookup, a call, a failure) happens inside one of those     *)
(* sub-evaluations.                                                        *)
(***************************************************************************)
InsideAChild(p, q) ==
    \E n \in 1..Len(Children(p)) : Children(p)[n] <= q /\ q <= EndOf(Children(p)[n])

C6_UnchosenPathSkipped ==
    \A p \in Events :
        (log[p].ev = "enter" /\ log[p].node.op \in {"if", "and", "or"}) =>
            LET node == log[p].node
                ch == Children(p)
            IN  /\ node.op = "if" =>
                       /\ Len(ch) <= 2
                       /\ Len(ch) >= 1 => log[ch[1]].node = node.test
                       /\ Len(ch) = 2 =>
                              /\ ExitOf(ch[1]) # 0
                              /\ log[ExitOf(ch[1])].val.kind = "bool"
                              /\ log[ch[2]].node =
                                     IF log[ExitOf(ch[1])].val.v THEN node.then_exp
                                     ELSE node.else_exp
                /\ node.op \in {"and", "or"} =>
                       /\ Len(ch) <= Len(node.exps)
                       /\ \A n \in 1..Len(ch) : log[ch[n]].node = node.exps[n]
                       /\ \A n \in 1..(Len(ch) - 1) :
                              /\ ExitOf(ch[n]) # 0
                              /\ log[ExitOf(ch[n])].val = BoolV(node.op = "and")
                /\ \A q \in (p + 1)..(EndOf(p) - 1) :
                       log[q].ev # "type_error" => InsideAChild(p, q)

\* in one run an if returned 1 without evaluating its failing else branch, an and
\* returned after its first false operand without evaluating the print after
\* it, and an or returned after its first true operand without looking up the
\* unbound name after it
C6_Witness ==
    /\ \E p \in Events :
           /\ log[p].ev = "enter" /\ log[p].node.op = "if"
           /\ log[p].node.else_exp.op = "mod"
           /\ ExitOf(p) # 0 /\ log[ExitOf(p)].val = IntV(1)
           /\ Len(Children(p)) = 2
    /\ \E p \in Events :
           /\ log[p].ev = "enter" /\ log[p].node.op = "and"
           /\ Len(log[p].node.exps) = 3 /\ log[p].node.exps[3].op = "print-bool"
           /\ ExitOf(p) # 0 /\ log[ExitOf(p)].val = BoolV(FALSE)
           /\ Len(Children(p)) = 2
    /\ \E p \in Events :
           /\ log[p].ev = "enter" /\ log[p].node.op = "or"
           /\ Len(log[p].node.exps) = 3 /\ log[p].node.exps[3].op = "var"
           /\ ExitOf(p) # 0 /\ log[ExitOf(p)].val = BoolV(TRUE)
           /\ Len(Children(p)) = 2
    /\ pc = "done" /\ exc = "none"
    /\ out = <<<<"1">>, T_false, T_true>>

(***************************************************************************)
(* C7, as stated.  A well-formed program (one that parsed) with no         *)
(* print-num or print-bool form writes nothing at all.                     *)
(***************************************************************************)
C7_NoPrintNoOutput ==
    (Parsed /\ NoPrintForms) => out = <<>>

(***************************************************************************)
(* C7, as amended.  A well-formed program with no print-num or print-bool  *)
(* form writes nothing unless a type violation ends it, and then exactly   *)
(* the one line "Type error!"; once the run has ended its status is 0.     *)
(***************************************************************************)
C7_NoPrintOnlyTypeError ==
    (Parsed /\ NoPrintForms) =>
        /\ exc = "SystemExit" => out = <<TypeErrorLine>>
        /\ exc # "SystemExit" => out = <<>>
        /\ pc = "done" => status = "0"

\* a program of three statements without a print form, ended by a type violation
\* in the second after the first bound a name
C7_Witness ==
    /\ Parsed /\ NoPrintForms
    /\ Len(ast) = 3 /\ k = 2
    /\ DOMAIN envs[1].vars # {}
    /\ pc = "done" /\ exc = "SystemExit"
    /\ out = <<TypeErrorLine>>

(***************************************************************************)
(* C8.  Every iteration of the scanning loop of tokenize advances the      *)
(* input position, and a token it appends is not empty.                    *)
(***************************************************************************)
C8_LexerAdvances ==
    [][(pc = "tokenize" /\ pc' = "tokenize") =>
           /\ i' > i
           /\ tokens' # tokens => tokens'[Len(tokens')] # <<>>]_vars

(***************************************************************************)
(* C9.  Integer and Boolean are disjoint kinds at every check.  A form     *)
(* that returns has had operands of its kind only and returns its kind:    *)
(* + - * / mod take Integers and yield an Integer, > < = take Integers and *)
(* yield a Boolean, and / or / not take Booleans and yield a Boolean, the  *)
(* test of an if is a Boolean, print-num takes an Integer, print-bool a    *)
(* Boolean.  An operand of another kind is a type violation: at once where *)
(* the form checks each operand as it is evaluated, and once every operand *)
(* has been evaluated where the form evaluates them all first.             *)
(***************************************************************************)
NumberForms == {"+", "*", "-", "/", "mod", ">", "<", "=", "print-num"}

BooleanForms == {"and", "or", "not", "print-bool"}

EvaluateAllFirst == {"-", "/", "mod", ">", "<", "="}

\* the operands of the form opened at p that are subject to its check
CheckedOperands(p) ==
    IF log[p].node.op = "if"
    THEN IF Len(Children(p)) >= 1 THEN <<Children(p)[1]>> ELSE <<>>
    ELSE Children(p)

KindWanted(op) == IF op \in NumberForms THEN "int" ELSE "bool"

KindReturned(op) ==
    IF op \in {"+", "*", "-", "/", "mod", "print-num"} THEN "int" ELSE "bool"

C9_DisjointKinds ==
    \A p \in Events :
        (log[p].ev = "enter" /\ log[p].node.op \in NumberForms \cup BooleanForms \cup {"if"}) =>
            LET op == log[p].node.op
                operands == CheckedOperands(p)
                WrongKind(n) == /\ ExitOf(operands[n]) # 0
                                /\ log[ExitOf(operands[n])].val.kind # KindWanted(op)
            IN  /\ ExitOf(p) # 0 =>
                       /\ \A n \in 1..Len(operands) : ~WrongKind(n)
                       /\ op # "if" => log[ExitOf(p)].val.kind = KindReturned(op)
                /\ op \notin EvaluateAllFirst =>
                       \A n \in 1..Len(operands) : WrongKind(n) =>
                           /\ ExitOf(operands[n]) + 1 = Len(log)
                           /\ log[Len(log)].ev = "type_error"
                /\ (op \in EvaluateAllFirst /\ Len(operands) = Len(log[p].node.exps)
                    /\ ExitOf(operands[Len(operands)]) # 0
                    /\ \E n \in 1..Len(operands) : WrongKind(n)) =>
                       /\ ExitOf(operands[Len(operands)]) + 1 = Len(log)
                       /\ log[Len(log)].ev = "type_error"

\* the sum (+ 1 #t): the Boolean operand was evaluated and the run ended there
\* in a type violation, the sum never returning
C9_Witness ==
    \E p \in Events :
        /\ log[p].ev = "enter" /\ log[p].node.op = "+"
        /\ Len(Children(p)) = 2
        /\ ExitOf(Children(p)[2]) # 0
        /\ log[ExitOf(Children(p)[2])].val = BoolV(TRUE)
        /\ ExitOf(p) = 0
        /\ log[Len(log)].ev = "type_error"
        /\ pc = "done"

(***************************************************************************)
(* C10.  Frame effect of a closure invocation: each invocation creates one *)
(* fresh environment (the heap holds the global environment and one per    *)
(* invocation), whose parent is the closure's captured environment,        *)
(* and from the invocation to its return (or to the end of the run, if it  *)
(* does not return) bindings are added only to environments created at or  *)
(* after the invocation; the heap holding exactly the bindings made, every *)
(* older environment holds at the return what it held at the invocation.   *)
(***************************************************************************)
C10_FrameEffect ==
    /\ HeapIsTheDefines
    /\ envs # <<>> => Len(envs) = 1 + Cardinality({c \in Events : log[c].ev = "call"})
    /\ \A c \in Events : log[c].ev = "call" =>
           LET local_env == log[c].local_env
               last == IF ReturnOf(c) = 0 THEN Len(log) ELSE ReturnOf(c)
           IN  /\ local_env = 1 + Cardinality({b \in 1..c : log[b].ev = "call"})
               /\ log[c].closure_env < local_env
               /\ envs[local_env].parent = log[c].closure_env
               /\ \A q \in (c + 1)..last :
                      log[q].ev = "define" => log[q].env >= local_env

\* a closure with a local define invoked from inside its own invocation: both
\* invocations returned, each having bound the parameter and the local name in
\* its own environment
C10_Witness ==
    \E c \in Events : \E d \in Events :
        /\ log[c].ev = "call" /\ log[d].ev = "call"
        /\ c < d /\ ReturnOf(c) # 0 /\ ReturnOf(d) # 0 /\ ReturnOf(d) < ReturnOf(c)
        /\ log[c].closure_env = log[d].closure_env
        /\ DOMAIN envs[log[c].local_env].vars = DOMAIN envs[log[d].local_env].vars
        /\ Cardinality(DOMAIN envs[log[c].local_env].vars) = 2
        /\ envs[log[c].local_env].vars # envs[log[d].local_env].vars
        /\ pc = "done" /\ exc = "none"

====
